---- MODULE Spec2Model ----
(***************************************************************************)
(* RodRaiDee: car total-cost-of-ownership calculator (src/app/page.tsx).    *)
(*                                                                         *)
(* The state is the React state `cars` (an ordered collection of CarInput  *)
(* records) together with what the last render derived from it.  Every     *)
(* user interaction (a change or click event) is one action: React runs    *)
(* the handler, replaces `cars` by the new array and re-renders before the *)
(* next event is delivered.                                                *)
(*                                                                         *)
(* JavaScript numbers are modelled as extended rationals: a record         *)
(* [n, d] with d > 0 is the finite value n/d in lowest terms; d = 0 gives  *)
(* the three special values Infinity (n = 1), -Infinity (n = -1) and NaN   *)
(* (n = 0).  Finite arithmetic is exact (binary rounding of doubles and    *)
(* the sign of zero are not represented).                                  *)
(*                                                                         *)
(* Text is a sequence of one-character strings.                            *)
(***************************************************************************)
EXTENDS Integers, Sequences, FiniteSets, TLC

VARIABLES cars, rendered, typed, last, nOps

vars == <<cars, rendered, typed, last, nOps>>

(***************************************************************************)
(* Bounds of the model.                                                    *)
(***************************************************************************)
MaxCars == 2
MaxOps == 2
MaxLen == 3

(***************************************************************************)
(* JavaScript numbers.                                                     *)
(***************************************************************************)
Abs(n) == IF n < 0 THEN -n ELSE n

RECURSIVE GCD(_, _)
GCD(a, b) == IF b = 0 THEN a ELSE GCD(b, a % b)

RECURSIVE Pow10(_)
Pow10(e) == IF e = 0 THEN 1 ELSE 10 * Pow10(e - 1)

\* n/d (d # 0) in lowest terms with a positive denominator
Rat(n, d) ==
  IF d = 1 THEN [n |-> n, d |-> 1]
  ELSE LET s == IF d < 0 THEN -1 ELSE 1
           g == GCD(Abs(n), Abs(d))
       IN  [n |-> (s * n) \div g, d |-> (s * d) \div g]

\* the least common multiple of two positive integers
LCM(a, b) == (a \div GCD(a, b)) * b

Int2Num(n) == [n |-> n, d |-> 1]
NaN == [n |-> 0, d |-> 0]
PosInf == [n |-> 1, d |-> 0]
NegInf == [n |-> -1, d |-> 0]
Zero == Int2Num(0)

IsNaN(x) == x.d = 0 /\ x.n = 0
IsInf(x) == x.d = 0 /\ x.n # 0
IsFinite(x) == x.d > 0
Sign(x) == IF x.n > 0 THEN 1 ELSE IF x.n < 0 THEN -1 ELSE 0
SignedInf(s) == IF s > 0 THEN PosInf ELSE NegInf

\* a + b
NumAdd(a, b) ==
  IF IsNaN(a) \/ IsNaN(b) THEN NaN
  ELSE IF IsInf(a) THEN (IF IsInf(b) /\ b.n # a.n THEN NaN ELSE a)
  ELSE IF IsInf(b) THEN b
  ELSE LET l == LCM(a.d, b.d)
       IN  Rat(a.n * (l \div a.d) + b.n * (l \div b.d), l)

NumNeg(a) == [n |-> -a.n, d |-> a.d]

\* a - b
NumSub(a, b) == NumAdd(a, NumNeg(b))

\* a * b
NumMul(a, b) ==
  IF IsNaN(a) \/ IsNaN(b) THEN NaN
  ELSE IF IsInf(a) \/ IsInf(b)
       THEN (IF Sign(a) * Sign(b) = 0 THEN NaN ELSE SignedInf(Sign(a) * Sign(b)))
  ELSE Rat(a.n * b.n, a.d * b.d)

\* a / b
NumDiv(a, b) ==
  IF IsNaN(a) \/ IsNaN(b) THEN NaN
  ELSE IF IsInf(a)
       THEN (IF IsInf(b) THEN NaN
             ELSE SignedInf(IF Sign(b) < 0 THEN -Sign(a) ELSE Sign(a)))
  ELSE IF IsInf(b) THEN Zero
  ELSE IF b.n = 0 THEN (IF a.n = 0 THEN NaN ELSE SignedInf(Sign(a)))
  ELSE Rat(a.n * b.d, a.d * b.n)

\* a < b (false when either is NaN)
NumLt(a, b) ==
  /\ ~IsNaN(a)
  /\ ~IsNaN(b)
  /\ a # b
  /\ IF IsInf(a) THEN a = NegInf
     ELSE IF IsInf(b) THEN b = PosInf
     ELSE a.n * b.d < b.n * a.d

\* a <= b (false when either is NaN)
NumLe(a, b) == ~IsNaN(a) /\ ~IsNaN(b) /\ (a = b \/ NumLt(a, b))

\* JavaScript truthiness of a number: 0 and NaN are falsy
Truthy(x) == ~IsNaN(x) /\ x # Zero

(***************************************************************************)
(* Text to number.                                                         *)
(***************************************************************************)
Digits == {"0", "1", "2", "3", "4", "5", "6", "7", "8", "9"}
WhiteSpace == {" ", "\t"}
InfinityText == <<"I", "n", "f", "i", "n", "i", "t", "y">>

DigitVal == [c \in Digits |-> CHOOSE k \in 0..9 : ToString(k) = c]

\* the number of consecutive digits of u from position `from` on
RECURSIVE DigitRun(_, _)
DigitRun(u, from) ==
  IF from <= Len(u) /\ u[from] \in Digits THEN 1 + DigitRun(u, from + 1) ELSE 0

\* the value of the `count` digits of u that start at position `from`
RECURSIVE NatVal(_, _, _)
NatVal(u, from, count) ==
  IF count = 0 THEN 0
  ELSE 10 * NatVal(u, from, count - 1) + DigitVal[u[from + count - 1]]

RECURSIVE TrimLeft(_)
TrimLeft(s) ==
  IF s # <<>> /\ Head(s) \in WhiteSpace THEN TrimLeft(Tail(s)) ELSE s

RECURSIVE TrimRight(_)
TrimRight(s) ==
  IF s # <<>> /\ s[Len(s)] \in WhiteSpace
  THEN TrimRight(SubSeq(s, 1, Len(s) - 1)) ELSE s

StartsWith(u, prefix) ==
  Len(u) >= Len(prefix) /\ SubSeq(u, 1, Len(prefix)) = prefix

\* The longest prefix of t that is a decimal literal (StrDecimalLiteral):
\* an optional sign, then Infinity or digits with an optional fraction and
\* an optional exponent.  val is its value and len its length; len = 0 and
\* val = NaN when t starts with no literal.
ScanDecimal(t) ==
  LET signed == t # <<>> /\ t[1] \in {"+", "-"}
      sgn == IF signed /\ t[1] = "-" THEN -1 ELSE 1
      off == IF signed THEN 1 ELSE 0
      u == IF signed THEN Tail(t) ELSE t
      ni == DigitRun(u, 1)
      hasDot == Len(u) > ni /\ u[ni + 1] = "."
      nf == IF hasDot THEN DigitRun(u, ni + 2) ELSE 0
      mantEnd == ni + (IF hasDot THEN 1 + nf ELSE 0)
      hasE == Len(u) > mantEnd /\ u[mantEnd + 1] \in {"e", "E"}
      eSigned == hasE /\ Len(u) > mantEnd + 1 /\ u[mantEnd + 2] \in {"+", "-"}
      eStart == mantEnd + (IF eSigned THEN 3 ELSE 2)
      ne == IF hasE THEN DigitRun(u, eStart) ELSE 0
      ex == NatVal(u, eStart, ne)
      eNeg == eSigned /\ u[mantEnd + 2] = "-"
      mant == Rat(sgn * (NatVal(u, 1, ni) * Pow10(nf) + NatVal(u, ni + 2, nf)),
                  Pow10(nf))
      scale == IF eNeg THEN Rat(1, Pow10(ex)) ELSE Int2Num(Pow10(ex))
  IN  IF StartsWith(u, InfinityText)
      THEN [val |-> SignedInf(sgn), len |-> off + Len(InfinityText)]
      ELSE IF ni + nf = 0 THEN [val |-> NaN, len |-> 0]
      ELSE IF ne = 0 THEN [val |-> mant, len |-> off + mantEnd]
      ELSE [val |-> NumMul(mant, scale), len |-> off + eStart + ne - 1]

\* parseFloat(s): leading white space is skipped, what follows the literal
\* is ignored
parseFloat(s) == ScanDecimal(TrimLeft(s)).val

\* parseInput without its fallback: parseFloat(s.replace(/,/g, ''))
parseInput_NoFallback(s) == parseFloat(SelectSeq(s, LAMBDA c : c # ","))

\* parseInput = (s) => parseFloat(s.replace(/,/g, '')) || 0
parseInput(s) ==
  LET f == parseFloat(SelectSeq(s, LAMBDA c : c # ","))
  IN  IF Truthy(f) THEN f ELSE Zero

\* +s (ToNumber of a string): white space is trimmed on both sides, the
\* empty text is 0, and the whole rest must be one literal
ToNumber(s) ==
  LET t == TrimRight(TrimLeft(s))
      r == ScanDecimal(t)
  IN  IF t = <<>> THEN Zero
      ELSE IF r.len = Len(t) THEN r.val ELSE NaN

(***************************************************************************)
(* Types and preset tables.                                                *)
(***************************************************************************)
Powertrain == {"ICE", "Hybrid", "EV"}
FuelMode == {"city", "highway", "custom"}

FUEL_CONSUMPTION_PRESET ==
  [city    |-> [ICE |-> Int2Num(12), Hybrid |-> Int2Num(22), EV |-> Int2Num(11)],
   highway |-> [ICE |-> Int2Num(15), Hybrid |-> Int2Num(19), EV |-> Int2Num(14)],
   custom  |-> [ICE |-> Int2Num(14), Hybrid |-> Int2Num(20), EV |-> Int2Num(12)]]

PRESETS ==
  [ICE    |-> [insurance |-> Int2Num(22000), maintenance |-> Int2Num(8000),
               registration |-> Int2Num(2500), resalePct |-> Int2Num(30),
               miscellaneous |-> Int2Num(0), fuelPerKm |-> Rat(22, 10),
               maintenanceAtEnd |-> Int2Num(0)],
   Hybrid |-> [insurance |-> Int2Num(22000), maintenance |-> Int2Num(8000),
               registration |-> Int2Num(2500), resalePct |-> Int2Num(30),
               miscellaneous |-> Int2Num(0), fuelPerKm |-> Rat(16, 10),
               maintenanceAtEnd |-> Int2Num(150000)],
   EV     |-> [insurance |-> Int2Num(32000), maintenance |-> Int2Num(4000),
               registration |-> Int2Num(1000), resalePct |-> Int2Num(10),
               miscellaneous |-> Int2Num(0), fuelPerKm |-> Rat(8, 10),
               maintenanceAtEnd |-> Int2Num(300000)]]

(***************************************************************************)
(* Fuel helper.                                                            *)
(***************************************************************************)
calcFuelPerKm(powertrain, fuelPrice, fuelConsumption) ==
  IF powertrain = "EV"
  THEN NumMul(NumDiv(fuelConsumption, Int2Num(100)), fuelPrice)
  ELSE NumDiv(fuelPrice, fuelConsumption)

(***************************************************************************)
(* Default car.  `index` is the 0-based position the new car will take.    *)
(***************************************************************************)
defaultCar(index) ==
  LET p == PRESETS.ICE
      fuelConsumption == Int2Num(14)
      fuelPrice == Int2Num(30)
  IN  [name |-> "Car " \o ToString(index + 1),
       powertrain |-> "ICE",
       carPrice |-> Int2Num(1000000),
       discount |-> Int2Num(0),
       otherDiscount |-> Int2Num(0),
       resalePct |-> p.resalePct,
       kmPerYear |-> Int2Num(20000),
       years |-> Int2Num(10),
       insurance |-> p.insurance,
       maintenance |-> p.maintenance,
       maintenanceAtEnd |-> p.maintenanceAtEnd,
       registration |-> p.registration,
       miscellaneous |-> p.miscellaneous,
       fuelMode |-> "custom",
       fuelConsumption |-> fuelConsumption,
       fuelPrice |-> fuelPrice,
       fuelPerKm |-> calcFuelPerKm("ICE", fuelPrice, fuelConsumption)]

(***************************************************************************)
(* State updates of Home.  `index` is 1-based here (0-based in the source). *)
(***************************************************************************)
\* updateCar writing through to every profile, as if the records were shared
updateCar_AllCars(cs, index, key, value) ==
  [j \in 1..Len(cs) |-> [cs[j] EXCEPT ![key] = value]]

\* next = [...cars]; next[index] = { ...next[index], [key]: value }
updateCar(cs, index, key, value) ==
  [cs EXCEPT ![index] = [@ EXCEPT ![key] = value]]

\* next = [...cars]; next[index] = { ...next[index], ...values }
updateCarBulk(cs, index, values) ==
  [cs EXCEPT ![index] =
     [k \in DOMAIN @ |-> IF k \in DOMAIN values THEN values[k] ELSE @[k]]]

\* [...cars, defaultCar(cars.length)]
addCar(cs) == Append(cs, defaultCar(Len(cs)))

\* cars.filter((_, i) => i !== index)
removeCar(cs, index) ==
  [j \in 1..(Len(cs) - 1) |-> IF j < index THEN cs[j] ELSE cs[j + 1]]

\* calculate taking resalePct as a fraction: resaleValue = carPrice * resalePct
calculate_NoPercent(car) ==
  LET netCarPrice == NumSub(NumSub(car.carPrice, car.discount), car.otherDiscount)
      fuelPerYear == NumMul(car.fuelPerKm, car.kmPerYear)
      yearlyCost ==
        NumAdd(NumAdd(NumAdd(NumAdd(car.insurance, car.maintenance),
                             car.registration),
                      car.miscellaneous),
               fuelPerYear)
      resaleValue == NumMul(car.carPrice, car.resalePct)
      totalCost ==
        NumSub(NumAdd(NumAdd(netCarPrice, NumMul(yearlyCost, car.years)),
                      car.maintenanceAtEnd),
               resaleValue)
  IN  [netCarPrice |-> netCarPrice, fuelPerYear |-> fuelPerYear,
       yearlyCost |-> yearlyCost, resaleValue |-> resaleValue,
       totalCost |-> totalCost]

\* calculate with the net price's operands swapped: discount - carPrice
calculate_SwappedNet(car) ==
  LET netCarPrice == NumSub(NumSub(car.discount, car.carPrice), car.otherDiscount)
      fuelPerYear == NumMul(car.fuelPerKm, car.kmPerYear)
      yearlyCost ==
        NumAdd(NumAdd(NumAdd(NumAdd(car.insurance, car.maintenance),
                             car.registration),
                      car.miscellaneous),
               fuelPerYear)
      resaleValue == NumMul(car.carPrice, NumDiv(car.resalePct, Int2Num(100)))
      totalCost ==
        NumSub(NumAdd(NumAdd(netCarPrice, NumMul(yearlyCost, car.years)),
                      car.maintenanceAtEnd),
               resaleValue)
  IN  [netCarPrice |-> netCarPrice, fuelPerYear |-> fuelPerYear,
       yearlyCost |-> yearlyCost, resaleValue |-> resaleValue,
       totalCost |-> totalCost]

calculate(car) ==
  LET netCarPrice == NumSub(NumSub(car.carPrice, car.discount), car.otherDiscount)
      fuelPerYear == NumMul(car.fuelPerKm, car.kmPerYear)
      yearlyCost ==
        NumAdd(NumAdd(NumAdd(NumAdd(car.insurance, car.maintenance),
                             car.registration),
                      car.miscellaneous),
               fuelPerYear)
      resaleValue == NumMul(car.carPrice, NumDiv(car.resalePct, Int2Num(100)))
      totalCost ==
        NumSub(NumAdd(NumAdd(netCarPrice, NumMul(yearlyCost, car.years)),
                      car.maintenanceAtEnd),
               resaleValue)
  IN  [netCarPrice |-> netCarPrice, fuelPerYear |-> fuelPerYear,
       yearlyCost |-> yearlyCost, resaleValue |-> resaleValue,
       totalCost |-> totalCost]

\* cars.map((car, i) => { const r = calculate(car) ... })
Render(cs) == [i \in 1..Len(cs) |-> calculate(cs[i])]

(***************************************************************************)
(* What the user can enter.                                                *)
(***************************************************************************)
\* the fields edited through a text input and parseInput
TextKeys == {"carPrice", "discount", "otherDiscount", "kmPerYear", "insurance",
             "maintenance", "registration", "miscellaneous", "maintenanceAtEnd"}
\* the fields edited through a number input and unary +
NumberKeys == {"resalePct", "years"}

\* texts typed into a text input
TextInputs == { <<>>,
                <<"-", "5", "0", "0">>,
                <<"2", ",", "0", "0", "0", ",", "0", "0", "0">> }
\* values of a number input: the element hands out the empty text unless
\* its content is a valid number
NumberInputs == { <<>>, <<"1", "0">>, <<"2", "2">>, <<"-", "1">> }
NameInputs == { "A" }

\* every text of at most MaxLen characters over Alphabet, and some longer ones
Alphabet == {"0", "1", ",", "-", "a", " "}
Samples == { <<"1", ",", "0", "0", "0", ",", "0", "0", "0">>,
             <<"a", "b", "c">>,
             <<"1", "2", "a", "b", "c">>,
             <<"1", "e", "3">>,
             <<".", "5">>,
             <<"-", "0", ".", "2", "5", "x">>,
             <<"I", "n", "f", "i", "n", "i", "t", "y">>,
             <<"N", "a", "N">> }
ParseTexts == UNION {[1..k -> Alphabet] : k \in 0..MaxLen} \cup Samples
ParseKeys == {"carPrice", "discount", "otherDiscount"}

(***************************************************************************)
(* The operations.  setCars stores the new collection; the component is    *)
(* rendered again before the next event.  last and typed record the event  *)
(* that was handled (the operation, the car's position, the field, the     *)
(* option selected, the text entered) and nOps counts the events.          *)
(***************************************************************************)
setCars(next, op, i, key, value, text) ==
  /\ nOps < MaxOps
  /\ cars' = next
  /\ rendered' = Render(next)
  /\ typed' = text
  /\ last' = [op |-> op, i |-> i, key |-> key, value |-> value]
  /\ nOps' = nOps + 1

\* the add button
AddCar ==
  /\ Len(cars) < MaxCars
  /\ setCars(addCar(cars), "addCar", Len(cars) + 1, "", "", <<>>)

\* the remove button rendered for an only car too
RemoveCar_Unguarded(i) ==
  setCars(removeCar(cars, i), "removeCar", i, "", "", <<>>)

\* the remove button of car i, rendered when cars.length > 1
RemoveCar(i) ==
  /\ Len(cars) > 1
  /\ setCars(removeCar(cars, i), "removeCar", i, "", "", <<>>)

EditName(i, v) ==
  setCars(updateCar(cars, i, "name", v), "name", i, "name", v, <<>>)

\* a text input: carPrice, discount, ... maintenanceAtEnd
EditText(i, key, s) ==
  setCars(updateCar(cars, i, key, parseInput(s)), "text", i, key, "", s)

\* a number input: resalePct, years
EditNumber(i, key, s) ==
  setCars(updateCar(cars, i, key, ToNumber(s)), "number", i, key, "", s)

\* the powertrain select reading the consumption of the previous powertrain
SelectPowertrain_StaleConsumption(i, pt) ==
  LET car == cars[i]
      p == PRESETS[pt]
      fuelPrice == IF pt = "EV" THEN Int2Num(5) ELSE Int2Num(30)
      fc == FUEL_CONSUMPTION_PRESET[car.fuelMode][car.powertrain]
  IN  /\ pt # car.powertrain
      /\ setCars(updateCarBulk(cars, i,
                   [powertrain |-> pt,
                    insurance |-> p.insurance,
                    maintenance |-> p.maintenance,
                    registration |-> p.registration,
                    resalePct |-> p.resalePct,
                    miscellaneous |-> p.miscellaneous,
                    maintenanceAtEnd |-> p.maintenanceAtEnd,
                    fuelPrice |-> fuelPrice,
                    fuelConsumption |-> fc,
                    fuelPerKm |-> calcFuelPerKm(pt, fuelPrice, fc)]),
                 "powertrain", i, "powertrain", pt, <<>>)

\* the powertrain select; a select reports a change of its value
SelectPowertrain(i, pt) ==
  LET car == cars[i]
      p == PRESETS[pt]
      fuelPrice == IF pt = "EV" THEN Int2Num(5) ELSE Int2Num(30)
      fc == FUEL_CONSUMPTION_PRESET[car.fuelMode][pt]
  IN  /\ pt # car.powertrain
      /\ setCars(updateCarBulk(cars, i,
                   [powertrain |-> pt,
                    insurance |-> p.insurance,
                    maintenance |-> p.maintenance,
                    registration |-> p.registration,
                    resalePct |-> p.resalePct,
                    miscellaneous |-> p.miscellaneous,
                    maintenanceAtEnd |-> p.maintenanceAtEnd,
                    fuelPrice |-> fuelPrice,
                    fuelConsumption |-> fc,
                    fuelPerKm |-> calcFuelPerKm(pt, fuelPrice, fc)]),
                 "powertrain", i, "powertrain", pt, <<>>)

\* the fuel price input storing the price alone, fuelPerKm left as it was
EditFuelPrice_Stale(i, s) ==
  setCars(updateCar(cars, i, "fuelPrice", ToNumber(s)),
          "fuelPrice", i, "fuelPrice", "", s)

\* the fuel price number input
EditFuelPrice(i, s) ==
  LET car == cars[i]
      fuelPrice == ToNumber(s)
  IN  setCars(updateCarBulk(cars, i,
                [fuelPrice |-> fuelPrice,
                 fuelPerKm |-> calcFuelPerKm(car.powertrain, fuelPrice,
                                             car.fuelConsumption)]),
              "fuelPrice", i, "fuelPrice", "", s)

\* the fuel mode select keeping the profile's consumption in custom mode
SelectFuelMode_KeepCustom(i, mode) ==
  LET car == cars[i]
      fc == IF mode = "custom" THEN car.fuelConsumption
            ELSE FUEL_CONSUMPTION_PRESET[mode][car.powertrain]
  IN  /\ mode # car.fuelMode
      /\ setCars(updateCarBulk(cars, i,
                   [fuelMode |-> mode,
                    fuelConsumption |-> fc,
                    fuelPerKm |-> calcFuelPerKm(car.powertrain, car.fuelPrice, fc)]),
                 "fuelMode", i, "fuelMode", mode, <<>>)

\* the fuel mode select; a select reports a change of its value
SelectFuelMode(i, mode) ==
  LET car == cars[i]
      fc == FUEL_CONSUMPTION_PRESET[mode][car.powertrain]
  IN  /\ mode # car.fuelMode
      /\ setCars(updateCarBulk(cars, i,
                   [fuelMode |-> mode,
                    fuelConsumption |-> fc,
                    fuelPerKm |-> calcFuelPerKm(car.powertrain, car.fuelPrice, fc)]),
                 "fuelMode", i, "fuelMode", mode, <<>>)

\* the fuel consumption input rendered in every fuel mode
EditFuelConsumption_AnyMode(i, s) ==
  LET car == cars[i]
      fc == ToNumber(s)
  IN  setCars(updateCarBulk(cars, i,
                [fuelConsumption |-> fc,
                 fuelPerKm |-> calcFuelPerKm(car.powertrain, car.fuelPrice, fc)]),
              "fuelConsumption", i, "fuelConsumption", "", s)

\* the fuel consumption number input, rendered when fuelMode is custom
EditFuelConsumption(i, s) ==
  LET car == cars[i]
      fc == ToNumber(s)
  IN  /\ car.fuelMode = "custom"
      /\ setCars(updateCarBulk(cars, i,
                   [fuelConsumption |-> fc,
                    fuelPerKm |-> calcFuelPerKm(car.powertrain, car.fuelPrice, fc)]),
                 "fuelConsumption", i, "fuelConsumption", "", s)

\* useState([defaultCar(0)]) and the first render
Init ==
  /\ cars = <<defaultCar(0)>>
  /\ rendered = Render(cars)
  /\ typed = <<>>
  /\ last = [op |-> "init", i |-> 0, key |-> "", value |-> ""]
  /\ nOps = 0

Next ==
  \/ AddCar
  \/ \E i \in 1..Len(cars) : RemoveCar(i)
  \/ \E i \in 1..Len(cars), v \in NameInputs : EditName(i, v)
  \/ \E i \in 1..Len(cars), key \in TextKeys, s \in TextInputs : EditText(i, key, s)
  \/ \E i \in 1..Len(cars), key \in NumberKeys, s \in NumberInputs :
       EditNumber(i, key, s)
  \/ \E i \in 1..Len(cars), pt \in Powertrain : SelectPowertrain(i, pt)
  \/ \E i \in 1..Len(cars), s \in NumberInputs : EditFuelPrice(i, s)
  \/ \E i \in 1..Len(cars), mode \in FuelMode : SelectFuelMode(i, mode)
  \/ \E i \in 1..Len(cars), s \in NumberInputs : EditFuelConsumption(i, s)

Spec == Init /\ [][Next]_vars

(***************************************************************************)
(* parseInput on its own: a text is typed into the first car's price and   *)
(* discount inputs.                                                        *)
(***************************************************************************)
InitParse ==
  /\ cars = <<defaultCar(0)>>
  /\ rendered = Render(cars)
  /\ typed \in ParseTexts
  /\ last = [op |-> "init", i |-> 0, key |-> "", value |-> ""]
  /\ nOps = 0

NextParse == \E key \in ParseKeys : EditText(1, key, typed)

SpecParse == InitParse /\ [][NextParse]_vars

(***************************************************************************)
(* Properties.                                                             *)
(***************************************************************************)
Cars == 1..Len(cars)
EditOps == {"name", "text", "number", "powertrain", "fuelPrice", "fuelMode",
            "fuelConsumption"}
OneMillionText == <<"1", ",", "0", "0", "0", ",", "0", "0", "0">>

\* the fuel-cost formula of a profile's current powertrain, price and consumption
FuelCostFormula(car) ==
  IF car.powertrain = "EV"
  THEN NumMul(NumDiv(car.fuelConsumption, Int2Num(100)), car.fuelPrice)
  ELSE NumDiv(car.fuelPrice, car.fuelConsumption)

NotNegative(x) == ~NumLt(x, Zero)

\* C1: in every reachable state every profile's cached fuelPerKm equals the
\* fuel-cost formula of its current powertrain, fuelPrice and fuelConsumption
\* ((fuelConsumption/100)*fuelPrice for EV, fuelPrice/fuelConsumption
\* otherwise): no operation leaves a stale fuelPerKm.
C1_FuelPerKmNeverStale ==
  \A i \in Cars : cars[i].fuelPerKm = FuelCostFormula(cars[i])

\* a fuel price edit has changed the fuelPerKm of an EV
C1_Witness ==
  /\ last.op = "fuelPrice"
  /\ cars[last.i].powertrain = "EV"
  /\ cars[last.i].fuelPerKm = Rat(264, 100)

\* C2: the collection is never empty; remove is offered only when more than
\* one profile exists.
C2_NeverEmpty == Len(cars) >= 1

\* a car has been removed and one profile is left
C2_Witness == last.op = "removeCar" /\ Len(cars) = 1

\* C3: for ICE or Hybrid a fuelConsumption of 0 yields fuelPerKm = 0, so
\* nothing infinite or undefined reaches fuelPerYear, yearlyCost or totalCost.
C3_ZeroConsumptionYieldsZero ==
  \A i \in Cars :
    (cars[i].powertrain # "EV" /\ cars[i].fuelConsumption = Zero)
      => /\ cars[i].fuelPerKm = Zero
         /\ IsFinite(rendered[i].fuelPerYear)
         /\ IsFinite(rendered[i].yearlyCost)
         /\ IsFinite(rendered[i].totalCost)

\* C4 as claimed: selecting "custom" keeps the profile's fuelConsumption,
\* selecting "city" or "highway" sets it to the preset of that mode and the
\* current powertrain; fuelPerKm is recomputed.
C4_CustomKeepsConsumption ==
  [][last'.op = "fuelMode" =>
       LET before == cars[last'.i]
           after == cars'[last'.i]
       IN  /\ after.fuelMode = last'.value
           /\ after.fuelConsumption =
                IF after.fuelMode = "custom" THEN before.fuelConsumption
                ELSE FUEL_CONSUMPTION_PRESET[after.fuelMode][before.powertrain]
           /\ after.fuelPerKm = FuelCostFormula(after)]_vars

\* C4 as amended: selecting any fuel mode, "custom" included, sets
\* fuelConsumption to the table's entry for that mode and the profile's
\* current powertrain (for "custom": 14, 20 or 12, replacing the value the
\* profile had); powertrain and fuelPrice are kept and fuelPerKm is recomputed.
C4_ModeSetsPresetConsumption ==
  [][last'.op = "fuelMode" =>
       LET before == cars[last'.i]
           after == cars'[last'.i]
       IN  /\ after.fuelMode = last'.value
           /\ after.powertrain = before.powertrain
           /\ after.fuelPrice = before.fuelPrice
           /\ after.fuelConsumption =
                FUEL_CONSUMPTION_PRESET[after.fuelMode][before.powertrain]
           /\ after.fuelPerKm = FuelCostFormula(after)]_vars

\* "custom" has been selected on a profile that was in another mode
C4_Witness ==
  /\ last.op = "fuelMode"
  /\ last.value = "custom"
  /\ cars[last.i].fuelConsumption = Int2Num(14)

\* C5: selecting powertrain pt sets insurance, maintenance, registration,
\* resalePct, miscellaneous and maintenanceAtEnd to pt's preset, fuelPrice to
\* 5 (EV) or 30 (ICE, Hybrid), fuelConsumption to the preset of the profile's
\* fuel mode and pt, and fuelPerKm to the fuel-cost formula of the new values.
C5_PowertrainAppliesPreset ==
  [][last'.op = "powertrain" =>
       LET pt == last'.value
           before == cars[last'.i]
           after == cars'[last'.i]
       IN  /\ after.powertrain = pt
           /\ after.fuelMode = before.fuelMode
           /\ after.insurance = PRESETS[pt].insurance
           /\ after.maintenance = PRESETS[pt].maintenance
           /\ after.registration = PRESETS[pt].registration
           /\ after.resalePct = PRESETS[pt].resalePct
           /\ after.miscellaneous = PRESETS[pt].miscellaneous
           /\ after.maintenanceAtEnd = PRESETS[pt].maintenanceAtEnd
           /\ after.fuelPrice = Int2Num(IF pt = "EV" THEN 5 ELSE 30)
           /\ after.fuelConsumption =
                FUEL_CONSUMPTION_PRESET[before.fuelMode][pt]
           /\ after.fuelPerKm =
                IF pt = "EV"
                THEN NumMul(NumDiv(after.fuelConsumption, Int2Num(100)),
                            after.fuelPrice)
                ELSE NumDiv(after.fuelPrice, after.fuelConsumption)]_vars

\* EV has been selected on a profile in city mode
C5_Witness ==
  /\ last.op = "powertrain"
  /\ last.value = "EV"
  /\ cars[last.i].fuelMode = "city"
  /\ cars[last.i].fuelPerKm = Rat(55, 100)

\* C6: an edit or bulk update addressed to position i changes only that
\* profile: the others, the length and the order are unchanged.
C6_EditChangesOnlyItsProfile ==
  [][last'.op \in EditOps =>
       /\ Len(cars') = Len(cars)
       /\ \A j \in 1..Len(cars) : j # last'.i => cars'[j] = cars[j]]_vars

\* the first of two profiles has been edited and the second is as created
C6_Witness ==
  /\ last.op \in EditOps
  /\ last.i = 1
  /\ Len(cars) = 2
  /\ cars[1] # defaultCar(0)
  /\ cars[2] = defaultCar(1)

\* C7: for every profile calculate returns
\*   netCarPrice = carPrice - discount - otherDiscount (not clamped),
\*   fuelPerYear = fuelPerKm * kmPerYear,
\*   yearlyCost  = insurance + maintenance + registration + miscellaneous
\*                 + fuelPerYear,
\*   resaleValue = carPrice * resalePct / 100,
\*   totalCost   = netCarPrice + yearlyCost * years + maintenanceAtEnd
\*                 - resaleValue;
\* the profile of the example (price 1,000,000, fuelPerKm 2.2, ...) has
\* totalCost 1,465,000.
C7_IsExample(car) ==
  /\ car.carPrice = Int2Num(1000000)
  /\ car.discount = Zero
  /\ car.otherDiscount = Zero
  /\ car.resalePct = Int2Num(30)
  /\ car.kmPerYear = Int2Num(20000)
  /\ car.years = Int2Num(10)
  /\ car.insurance = Int2Num(22000)
  /\ car.maintenance = Int2Num(8000)
  /\ car.registration = Int2Num(2500)
  /\ car.miscellaneous = Zero
  /\ car.maintenanceAtEnd = Zero
  /\ car.fuelPerKm = Rat(22, 10)

C7_CalculateFormulas ==
  \A i \in Cars :
    LET car == cars[i]
        r == rendered[i]
    IN  /\ r.netCarPrice = NumSub(NumSub(car.carPrice, car.discount),
                                  car.otherDiscount)
        /\ r.fuelPerYear = NumMul(car.fuelPerKm, car.kmPerYear)
        /\ r.yearlyCost =
             NumAdd(car.insurance,
               NumAdd(car.maintenance,
                 NumAdd(car.registration,
                   NumAdd(car.miscellaneous, r.fuelPerYear))))
        /\ r.resaleValue =
             NumDiv(NumMul(car.carPrice, car.resalePct), Int2Num(100))
        /\ r.totalCost =
             NumSub(NumAdd(NumAdd(r.netCarPrice, NumMul(r.yearlyCost, car.years)),
                           car.maintenanceAtEnd),
                    r.resaleValue)
        /\ C7_IsExample(car) =>
             /\ r.fuelPerYear = Int2Num(44000)
             /\ r.yearlyCost = Int2Num(76500)
             /\ r.resaleValue = Int2Num(300000)
             /\ r.totalCost = Int2Num(1465000)

\* the example's profile (fuelPrice 22, fuelConsumption 10: fuelPerKm 2.2)
\* has been rendered
C7_Witness ==
  \E i \in Cars :
    C7_IsExample(cars[i]) /\ rendered[i].totalCost = Int2Num(1465000)

\* a text with no number at its start: after the commas and the leading
\* white space are dropped it is neither [sign] digit ..., [sign] . digit ...
\* nor [sign] Infinity
FailsToParse(s) ==
  LET t == TrimLeft(SelectSeq(s, LAMBDA c : c # ","))
      u == IF t # <<>> /\ t[1] \in {"+", "-"} THEN Tail(t) ELSE t
  IN  ~ \/ (Len(u) >= 1 /\ u[1] \in Digits)
        \/ (Len(u) >= 2 /\ u[1] = "." /\ u[2] \in Digits)
        \/ StartsWith(u, InfinityText)

\* C8: parseInput fails soft to zero: "1,000,000" yields 1000000, a text that
\* fails to parse ("" and "abc" among them) yields 0, and the value a text
\* edit stores is never NaN.
C8_ParseFailsSoftToZero ==
  last.op = "text" =>
    LET v == cars[last.i][last.key]
    IN  /\ ~IsNaN(v)
        /\ typed = OneMillionText => v = Int2Num(1000000)
        /\ typed \in {<<>>, <<"a", "b", "c">>} => v = Zero
        /\ FailsToParse(typed) => v = Zero

\* "1,000,000" has been typed into the discount input
C8_Witness ==
  /\ last.op = "text"
  /\ last.key = "discount"
  /\ typed = OneMillionText
  /\ cars[1].discount = Int2Num(1000000)

\* C9 as claimed: in every reachable state netCarPrice, fuelPerYear,
\* yearlyCost and resaleValue of every profile are non-negative.
C9_DerivedNonNegative ==
  \A i \in Cars :
    /\ NumLe(Zero, rendered[i].netCarPrice)
    /\ NumLe(Zero, rendered[i].fuelPerYear)
    /\ NumLe(Zero, rendered[i].yearlyCost)
    /\ NumLe(Zero, rendered[i].resaleValue)

\* a profile whose inputs are sensible: no negative price, resale percentage,
\* distance, yearly cost or fuel cost per km, and discounts within the price
C9_Sensible(car) ==
  /\ NumLe(Zero, car.carPrice)
  /\ NumLe(Zero, car.resalePct)
  /\ NumLe(Zero, car.kmPerYear)
  /\ NumLe(Zero, car.insurance)
  /\ NumLe(Zero, car.maintenance)
  /\ NumLe(Zero, car.registration)
  /\ NumLe(Zero, car.miscellaneous)
  /\ NumLe(Zero, car.fuelPerKm)
  /\ NumLe(car.discount, car.carPrice)
  /\ NumLe(car.otherDiscount, NumSub(car.carPrice, car.discount))

\* C9 as amended: calculate does not clamp, so the four results are
\* non-negative only for sensible inputs: when carPrice, resalePct, kmPerYear,
\* insurance, maintenance, registration, miscellaneous and fuelPerKm are >= 0
\* and the discounts do not exceed the price, none of netCarPrice,
\* fuelPerYear, yearlyCost and resaleValue is negative.
C9_SensibleInputsNotNegative ==
  \A i \in Cars :
    C9_Sensible(cars[i]) =>
      /\ NotNegative(rendered[i].netCarPrice)
      /\ NotNegative(rendered[i].fuelPerYear)
      /\ NotNegative(rendered[i].yearlyCost)
      /\ NotNegative(rendered[i].resaleValue)

\* a sensible profile with a discount as large as its price
C9_Witness ==
  \E i \in Cars :
    /\ C9_Sensible(cars[i])
    /\ NumLt(Zero, cars[i].discount)
    /\ rendered[i].netCarPrice = Zero

\* C10: a profile in "city" or "highway" mode has the table's fuelConsumption
\* for its mode and powertrain; the consumption is edited only in "custom".
C10_PresetModeHasPresetConsumption ==
  \A i \in Cars :
    cars[i].fuelMode \in {"city", "highway"} =>
      cars[i].fuelConsumption =
        FUEL_CONSUMPTION_PRESET[cars[i].fuelMode][cars[i].powertrain]

\* the powertrain of a profile in highway mode has been changed
C10_Witness ==
  /\ last.op = "powertrain"
  /\ cars[last.i].fuelMode = "highway"
  /\ cars[last.i].fuelConsumption = Int2Num(19)

====
